---- MODULE Spec2Model ----
(***************************************************************************)
(* Streaming decode engine of moshi/models/lm.py: the delay ring buffer    *)
(* (_LMGenState.cache), the generation offset and LMGen.step().            *)
(*                                                                         *)
(* Batch entries advance in lockstep and never interact, so the model      *)
(* follows one batch entry (B = 1).  The two neural networks are external  *)
(* collaborators: the text token sampled from the sequence model's logits *)
(* is a free choice from TextTokens, and each token of the depth decoder's *)
(* chain is a function of the codebook index and the previous token.       *)
(***************************************************************************)
EXTENDS Integers, Sequences, FiniteSets, TLC

\* ---------------------------------------------------------------- bounds
MaxDelay == 2      \* largest delay of a delay pattern
MaxSteps == 5      \* cap on the generation offset
MaxFaults == 1     \* invalid external tokens a caller feeds in one session

\* ------------------------------------------------- model configuration
\* LMModel(card=..., text_card=...): the constructor arguments of the modelled
\* instance, a vocabulary of two audio tokens and one text token (plus padding).
card == 2
text_card == 1

\* Defaults of LMGen.__init__, temperatures in tenths.
default_temp == 8
default_temp_text == 7
default_top_k == 250
default_top_k_text == 25

initial_token_id == card
text_initial_token_id == text_card
zero_token_id == -1
ungenerated_token_id == -2
audio_offset == 1

VARIABLES
    n_q,            \* LMModel.n_q
    dep_q,          \* LMModel.dep_q
    delays,         \* LMModel.delays, indexed 0..n_q
    check,          \* LMGen.check
    max_delay,      \* LMGen.max_delay
    use_sampling,   \* LMGen.use_sampling
    temp,           \* LMGen.temp, in tenths
    temp_text,      \* LMGen.temp_text, in tenths
    top_k,          \* LMGen.top_k
    top_k_text,     \* LMGen.top_k_text
    built,          \* what the constructors have produced so far
    streaming,      \* LMGen._streaming_state is not None
    cache,          \* _LMGenState.cache[0, k, slot]
    offset,         \* _LMGenState.offset
    ret,            \* outcome of the last step() call
    input_,         \* slice read from the cache by the last step() call
    input_tokens,   \* external tokens passed to the last step() call
    calls,          \* step() calls of the session that passed the shape assertions
    main_calls,     \* invocations of state.graphed_main (the sequence model)
    recent,         \* [at, fed, tokens] of the latest max_delay + 1 steps, newest first
    stamp,          \* per cache cell: the write that last touched it
    faults,         \* invalid external tokens fed so far
    fed_ungenerated,\* the caller has passed ungenerated_token_id to step()
    shape,          \* <<dim, Ki, S>> of the tensor passed to the last step() call
    depth_calls,    \* invocations of state.graphed_depth (the depth decoder)
    closed,         \* the generator's last session was closed and none is open
    main_at,        \* offset at the session's latest invocation of state.graphed_main
    parked,         \* the other generator of a pair (its check flag and session), or <<>>
    turn,           \* which generator of a pair the variables above describe
    tokens_same,    \* the second generator has sampled the first one's text tokens so far
    depformer_state,\* lm_model.depformer: is_streaming and the inputs its state has seen
    frame,          \* the depformer_step call in progress, or the last one made
    fresh,          \* cache of a session opened afresh at the last reset and fed the same
    no_stream       \* the last LMNoStream.forward call: arguments, assembled input_, outcome

cfgvars == <<n_q, dep_q, delays, check, max_delay, use_sampling,
             temp, temp_text, top_k, top_k_text, built>>
pairvars == <<parked, turn, tokens_same>>
depvars == <<depformer_state, frame>>
twinvars == <<fresh>>
nsvars == <<no_stream>>
vars == <<n_q, dep_q, delays, check, max_delay, use_sampling,
          temp, temp_text, top_k, top_k_text, built, streaming, cache, offset,
          ret, input_, input_tokens, calls, main_calls, recent, stamp, faults,
          fed_ungenerated, shape, depth_calls, closed, main_at,
          parked, turn, tokens_same, depformer_state, frame, fresh, no_stream>>

\* ------------------------------------------------------------- helpers
MaxOf(S) == CHOOSE x \in S : \A y \in S : y <= x
MinOf(a, b) == IF a <= b THEN a ELSE b
Least(S) == CHOOSE x \in S : \A y \in S : x <= y

num_codebooks == n_q + 1
needed_tokens == num_codebooks - dep_q - 1
Codebooks == 0..(num_codebooks - 1)
Generated == 0..dep_q

\* _get_initial_token: text start token in row 0, audio start token elsewhere.
GetInitialToken(k) == IF k = 0 THEN text_initial_token_id ELSE initial_token_id

\* Mutant: the cache is allocated without the two spare slots.
CacheSizeTight == IF max_delay > 0 THEN max_delay ELSE 1

\* Third extent of the cache tensor allocated by _init_streaming_state.
CacheSize == max_delay + 2

\* CT = state.cache.shape[2]
CT == Cardinality(DOMAIN cache[0])

\* -------------------------------------------------- the configurations
Shapes == {<<1, 1>>, <<2, 1>>, <<2, 2>>}
ScenarioA == [k \in 0..8 |-> 0]
ScenarioB == [k \in 0..8 |-> IF k = 0 THEN 0 ELSE 1]

Configs ==
    {[n_q |-> s[1], dep_q |-> s[2], delays |-> d] :
        s \in Shapes, d \in UNION {[0..n -> 0..MaxDelay] : n \in 1..2}}
    \cup {[n_q |-> 8, dep_q |-> 8, delays |-> d] : d \in {ScenarioA, ScenarioB}}

\* LMModel.__init__: assert len(delays) == self.num_codebooks
ValidConfig(c) == DOMAIN c.delays = 0..c.n_q

\* ------------------------------------------------ the external networks
\* sample_token(text_logits): text_linear has text_card + 1 outputs (no
\* existing_text_padding_id), so the padding/start id text_card can be sampled.
TextTokens == 0..text_card

\* utils.sampling.sample_token(logits, use_sampling, temp, top_k): the tokens it
\* can return for logits whose largest entry is argmax and whose support is
\* support.  Without sampling it is the argmax; with sampling it is a draw.
sample_token(argmax, support, sampling) == IF sampling THEN support ELSE {argmax}

\* Mutant: the text token is drawn whatever use_sampling says.
TextTokenChoicesAlwaysDrawn(argmax) == sample_token(argmax, TextTokens, TRUE)

\* text_token = sample_token(text_logits.float(), self.use_sampling, ...)
TextTokenChoices(argmax) == sample_token(argmax, TextTokens, use_sampling)

\* sample_token(forward_depformer(cb_index, prev_token, transformer_out)):
\* linears[cb_index] has card outputs.
DepformerToken(cb_index, prev_token) == (prev_token + cb_index) % card

\* depformer_step: the chain over cb_index = 0..dep_q-1, seeded by the text token.
RECURSIVE DepformerChain(_, _)
DepformerChain(cb_index, prev_token) ==
    IF cb_index >= dep_q THEN <<>>
    ELSE LET next_token == DepformerToken(cb_index, prev_token)
         IN  <<next_token>> \o DepformerChain(cb_index + 1, next_token)

DepformerStep(text_token) == DepformerChain(0, text_token)

\* ------------------------------------------------------- external input
ValidExt == {0}
FaultyExt == {ungenerated_token_id, zero_token_id, card + 1}
ExtTokens == ValidExt \cup FaultyExt
NumFaulty(toks) == Cardinality({q \in DOMAIN toks : toks[q] \in FaultyExt})

\* Tensors a caller passes to step(): rank 3 with one timestep and 0 to
\* needed_tokens + 1 codebooks, a rank-2 tensor, and one with two timesteps.
InputShapes ==
    {<<3, Ki, 1>> : Ki \in 0..(needed_tokens + 1)}
    \cup {<<2, needed_tokens, 1>>, <<3, needed_tokens, 2>>}

\* Mutant: the number of external codebooks is not tested.
ShapeErrorNoCount(dim, Ki, S) ==
    IF dim # 3 THEN "dim"
    ELSE IF S # 1 THEN "steps"
    ELSE "ok"

\* assert input_tokens.dim() == 3; assert S == 1; assert Ki == needed_tokens
ShapeError(dim, Ki, S) ==
    IF dim # 3 THEN "dim"
    ELSE IF S # 1 THEN "steps"
    ELSE IF Ki # needed_tokens THEN "codebooks"
    ELSE "ok"

\* ------------------------------------------------------- cache positions
\* write_position = (state.offset + delay) % CT
\* Mutant: external tokens written at the current position, the delay left out.
WritePositionNoDelay(k, o) == o % CT
WritePosition(k, o) == (o + delays[k]) % CT
\* position = state.offset % CT
Position(o) == o % CT
\* Mutant: seeding stops one step early.
NeedsInitialStrict(k, o) == o < delays[k]
\* Mutant: the initial tokens are seeded on the first step only.
NeedsInitialFirstOnly(k, o) == o = 0
\* Mutant: the initial tokens are seeded inside the validation block.
NeedsInitialWhenChecked(k, o) == check /\ o <= delays[k]
\* if state.offset <= delay
NeedsInitial(k, o) == o <= delays[k]
\* Mutants: warm-up one step short; warm-up measured by the smallest delay.
WarmingUpStrict(o) == o < max_delay
WarmingUpMinDelay(o) == o <= Least({delays[k] : k \in DOMAIN delays})
\* if state.offset <= self.max_delay: return None
WarmingUp(o) == o <= max_delay
\* Mutant: every codebook is gathered.
GatherRowsAll == Codebooks
\* gen_delays_cuda = self.delays_cuda[: lm_model.dep_q + 1]
GatherRows == 0..dep_q
\* Mutants: the delay subtracted, an index one slot behind, the delay left out.
GatherIndexSignSlip(k, o) == (o - max_delay - delays[k]) % CT
GatherIndexOffByOne(k, o) == (o - max_delay + delays[k] - 1) % CT
GatherIndexNoDelay(k, o) == (o - max_delay) % CT
\* (state.offset - self.max_delay + gen_delays_cuda) % CT
GatherIndex(k, o) == (o - max_delay + delays[k]) % CT

\* Mutants: the offset advanced by two; the offset left where it was.
NextOffsetSkips(o) == o + 2
NextOffsetStuck(o) == o
\* state.offset += 1
NextOffset(o) == o + 1

\* ------------------------------------------------------ cache operations
\* for q_other in range(input_tokens.shape[1]): cache[:, k, write_position] = ...
WriteInput(c, o, toks) ==
    [k \in Codebooks |->
        IF k > dep_q /\ k - dep_q <= Len(toks)
        THEN [c[k] EXCEPT ![WritePosition(k, o)] = toks[k - dep_q]]
        ELSE c[k]]

\* Mutant: the seeding is left out.
SeedInitialSkipped(c, o) == c

\* for k, delay in enumerate(delays): if offset <= delay: cache[:, k, position] = initial
SeedInitial(c, o) ==
    LET position == Position(o)
    IN  [k \in Codebooks |->
            IF NeedsInitial(k, o) THEN [c[k] EXCEPT ![position] = GetInitialToken(k)]
            ELSE c[k]]

\* input_ = state.cache[:, :, position : position + 1]
ReadInput(c, o) ==
    LET position == Position(o)
    IN  [k \in Codebooks |-> c[k][position]]

\* Mutant: the generated tokens written at their delayed slots.
WriteGeneratedDelayed(c, o, text_token, audio_tokens) ==
    [k \in Codebooks |->
        IF k = 0 THEN [c[k] EXCEPT ![WritePosition(k, o)] = text_token]
        ELSE IF k \in 1..dep_q THEN [c[k] EXCEPT ![WritePosition(k, o)] = audio_tokens[k]]
        ELSE c[k]]

\* cache[:, 0, position] = text_token; cache[:, 1 : dep_q + 1, position] = audio_tokens
WriteGenerated(c, o, text_token, audio_tokens) ==
    LET position == Position(o)
    IN  [k \in Codebooks |->
            IF k = 0 THEN [c[k] EXCEPT ![position] = text_token]
            ELSE IF k \in 1..dep_q THEN [c[k] EXCEPT ![position] = audio_tokens[k]]
            ELSE c[k]]

\* out = state.cache.gather(dim=2, index=index)
GatherOutput(c, o) == [k \in GatherRows |-> c[k][GatherIndex(k, o)]]

\* Mutants: the check block without the audio bound; without the sentinel test.
CheckInputNoAudioBound(inp) ==
    IF \E k \in DOMAIN inp : inp[k] = ungenerated_token_id THEN "ungenerated"
    ELSE IF inp[0] > text_card THEN "text_range"
    ELSE "ok"
CheckInputNoSentinel(inp) ==
    IF \E k \in DOMAIN inp : k >= audio_offset /\ inp[k] > card THEN "audio_range"
    ELSE IF inp[0] > text_card THEN "text_range"
    ELSE "ok"

\* The three assertions of the check block, in order; "ok" when all pass.
CheckInput(inp) ==
    IF \E k \in DOMAIN inp : inp[k] = ungenerated_token_id THEN "ungenerated"
    ELSE IF \E k \in DOMAIN inp : k >= audio_offset /\ inp[k] > card THEN "audio_range"
    ELSE IF inp[0] > text_card THEN "text_range"
    ELSE "ok"

\* ------------------------------------------------- bookkeeping of writes
Stamp(kind, at) == <<kind, at>>

StampInput(s, o) ==
    [k \in Codebooks |->
        IF k > dep_q THEN [s[k] EXCEPT ![WritePosition(k, o)] = Stamp("input", o)]
        ELSE s[k]]

StampInitial(s, o) ==
    LET position == Position(o)
    IN  [k \in Codebooks |->
            IF NeedsInitial(k, o) THEN [s[k] EXCEPT ![position] = Stamp("initial", o)]
            ELSE s[k]]

StampGenerated(s, o) ==
    LET position == Position(o)
    IN  [k \in Codebooks |->
            IF k \in 0..dep_q THEN [s[k] EXCEPT ![position] = Stamp("generated", o)]
            ELSE s[k]]

NoOutput == [k \in {} |-> 0]
NoShape == <<>>
NotInvoked == -1

\* Mutant: step() without a session returns None instead of raising.
NoStateOutcomeSilent == [kind |-> "None", out |-> NoOutput, why |-> "ok"]
\* if state is None: raise RuntimeError(...)
NoStateOutcome == [kind |-> "RuntimeError", out |-> NoOutput, why |-> "no session"]

\* The generator with no _streaming_state: no cache, no offset, no record.
Idle ==
    /\ streaming = FALSE
    /\ cache = <<>>
    /\ offset = 0
    /\ input_ = <<>>
    /\ input_tokens = <<>>
    /\ calls = 0
    /\ main_calls = 0
    /\ depth_calls = 0
    /\ recent = <<>>
    /\ stamp = <<>>
    /\ faults = 0
    /\ fed_ungenerated = FALSE
    /\ shape = NoShape
    /\ main_at = NotInvoked

\* ------------------------------------------------------------------ Init
\* One generator: LMModel(delays, n_q, dep_q, ...) and LMGen(lm_model, check=...).
InitLMGen ==
    /\ \E c \in Configs :
          /\ ValidConfig(c)
          /\ n_q = c.n_q
          /\ dep_q = c.dep_q
          /\ delays = c.delays
          /\ max_delay = MaxOf({c.delays[k] : k \in DOMAIN c.delays})
    /\ check \in BOOLEAN
    /\ temp = default_temp
    /\ temp_text = default_temp_text
    /\ top_k = default_top_k
    /\ top_k_text = default_top_k_text
    /\ built = "LMGen"
    /\ Idle
    /\ ret = [kind |-> "fresh", out |-> NoOutput, why |-> "ok"]
    /\ closed = FALSE

\* StreamingModule outside a streaming() block: no streaming state.
NotStreaming == [is_streaming |-> FALSE, seen |-> <<>>]

\* StreamingModule.streaming(batch_size) entered: a fresh, empty streaming state.
EnterStreaming == [is_streaming |-> TRUE, seen |-> <<>>]

\* StreamingModule.streaming() left, by return or by exception: the state is dropped.
ExitStreaming == NotStreaming

\* Mutant: the depformer keeps the default and follows its parent into streaming mode.
streaming_propagate_default == TRUE

\* LMModel.__init__: self.depformer.set_streaming_propagate(False)
streaming_propagate == FALSE

\* No LMNoStream.forward call made yet.
NoForward ==
    [called |-> FALSE, output_tokens |-> <<>>, text_tokens |-> <<>>, input_tokens |-> <<>>,
     input_ |-> <<>>, ret |-> [kind |-> "fresh", out |-> <<>>, why |-> "ok"]]

\* No depformer_step call made yet.
NoFrame ==
    [pc |-> "idle", cb_index |-> 0, prev_token |-> 0, text_token |-> 0,
     transformer_out |-> NotInvoked, depformer_tokens |-> <<>>, forwarded |-> <<>>,
     why |-> "ok"]

NoPair ==
    /\ parked = <<>>
    /\ turn = "first"
    /\ tokens_same = TRUE
    /\ depformer_state = NotStreaming
    /\ frame = NoFrame
    /\ fresh = <<>>
    /\ no_stream = NoForward

\* LMGen(..., use_sampling=True, ...) is the default.
Init ==
    /\ InitLMGen
    /\ use_sampling = TRUE
    /\ NoPair

\* --------------------------------------------------------------- actions
\* with lm_gen.streaming(batch_size): _init_streaming_state allocates the cache
\* filled with ungenerated_token_id; offset = 0.
InitStreamingState ==
    /\ ~streaming
    /\ streaming' = TRUE
    /\ cache' = [k \in Codebooks |-> [p \in 0..(CacheSize - 1) |-> ungenerated_token_id]]
    /\ stamp' = [k \in Codebooks |-> [p \in 0..(CacheSize - 1) |-> Stamp("alloc", 0)]]
    /\ offset' = 0
    /\ ret' = [kind |-> "fresh", out |-> NoOutput, why |-> "ok"]
    /\ closed' = FALSE
    /\ UNCHANGED <<cfgvars, input_, input_tokens, calls, main_calls, depth_calls, recent,
                   faults, fed_ungenerated, shape, main_at>>

\* Leaving the `with lm_gen.streaming()` block, normally or by an exception:
\* the generator drops its _streaming_state.
CloseSession ==
    /\ streaming
    /\ streaming' = FALSE
    /\ cache' = <<>>
    /\ offset' = 0
    /\ input_' = <<>>
    /\ input_tokens' = <<>>
    /\ calls' = 0
    /\ main_calls' = 0
    /\ depth_calls' = 0
    /\ recent' = <<>>
    /\ stamp' = <<>>
    /\ faults' = 0
    /\ fed_ungenerated' = FALSE
    /\ shape' = NoShape
    /\ main_at' = NotInvoked
    /\ ret' = [kind |-> "fresh", out |-> NoOutput, why |-> "ok"]
    /\ closed' = TRUE
    /\ UNCHANGED cfgvars

\* LMGen.step() with no _streaming_state: RuntimeError, nothing else happens.
StepWithoutState ==
    /\ ~streaming
    /\ ret' = NoStateOutcome
    /\ UNCHANGED <<cfgvars, streaming, cache, offset, input_, input_tokens, calls,
                   main_calls, depth_calls, recent, stamp, faults, fed_ungenerated,
                   shape, closed, main_at>>

\* LMGen.step() with a tensor the shape assertions reject: AssertionError
\* before the cache is touched.  Malformed tensors are tried in the sessions
\* that were fed no invalid token.
StepShapeError(dim, Ki, S) ==
    /\ streaming
    /\ ret.kind # "AssertionError"
    /\ faults = 0
    /\ ShapeError(dim, Ki, S) # "ok"
    /\ ret' = [kind |-> "AssertionError", out |-> NoOutput, why |-> ShapeError(dim, Ki, S)]
    /\ shape' = <<dim, Ki, S>>
    /\ UNCHANGED <<cfgvars, streaming, cache, offset, input_, input_tokens, calls, main_calls,
                   depth_calls, recent, stamp, faults, fed_ungenerated, closed,
                   main_at>>

\* LMGen.step(input_tokens), whole: external writes, seeding, read, check block,
\* sequence model and depth decoder, offset increment, generated writes, gather.
\* A failed assertion propagates out of the caller's `with lm_gen.streaming()`
\* block, which ends the session: no step follows a failed one.  Offsets stop
\* at MaxSteps and a session is fed at most MaxFaults invalid tokens.
Step(toks, text_token) ==
    /\ streaming
    /\ ret.kind # "AssertionError"
    /\ ShapeError(3, Len(toks), 1) = "ok"
    /\ offset < MaxSteps
    /\ faults + NumFaulty(toks) <= MaxFaults
    /\ LET c1 == WriteInput(cache, offset, toks)
           c2 == SeedInitial(c1, offset)
           s2 == StampInitial(StampInput(stamp, offset), offset)
           inp == ReadInput(c2, offset)
           why == IF check THEN CheckInput(inp) ELSE "ok"
           audio_tokens == DepformerStep(text_token)
           o1 == NextOffset(offset)
           c3 == WriteGenerated(c2, o1, text_token, audio_tokens)
           gen == [at |-> o1, fed |-> toks,
                   tokens |-> [k \in Generated |->
                                 IF k = 0 THEN text_token ELSE audio_tokens[k]]]
       IN  /\ input_tokens' = toks
           /\ input_' = inp
           /\ shape' = <<3, Len(toks), 1>>
           /\ calls' = calls + 1
           /\ faults' = faults + NumFaulty(toks)
           /\ fed_ungenerated' =
                  (fed_ungenerated \/ \E q \in DOMAIN toks : toks[q] = ungenerated_token_id)
           /\ IF why # "ok"
              THEN /\ cache' = c2
                   /\ stamp' = s2
                   /\ ret' = [kind |-> "AssertionError", out |-> NoOutput, why |-> why]
                   /\ UNCHANGED <<offset, main_calls, depth_calls, recent, main_at>>
              ELSE /\ main_calls' = main_calls + 1
                   /\ main_at' = offset
                   /\ depth_calls' = depth_calls + 1
                   /\ offset' = o1
                   /\ cache' = c3
                   /\ stamp' = StampGenerated(s2, o1)
                   /\ recent' = SubSeq(<<gen>> \o recent, 1,
                                       MinOf(Len(recent) + 1, max_delay + 1))
                   /\ ret' = IF WarmingUp(o1)
                             THEN [kind |-> "None", out |-> NoOutput, why |-> "ok"]
                             ELSE [kind |-> "out", out |-> GatherOutput(c3, o1),
                                   why |-> "ok"]
    /\ UNCHANGED cfgvars
    /\ UNCHANGED <<streaming, closed>>

\* _LMGenState.reset(), reached through lm_gen.reset_streaming(): the offset
\* goes back to 0 and the cache keeps its contents.  The session's record
\* starts again (counts, recent steps, faults); every cell is stamped stale and
\* main_at keeps the offset of the latest sequence-model invocation.
Reset ==
    /\ streaming
    /\ ret.kind # "AssertionError"
    /\ offset' = 0
    /\ stamp' = [k \in Codebooks |-> [p \in DOMAIN cache[k] |-> Stamp("stale", 0)]]
    /\ ret' = [kind |-> "fresh", out |-> NoOutput, why |-> "ok"]
    /\ input_' = <<>>
    /\ input_tokens' = <<>>
    /\ calls' = 0
    /\ main_calls' = 0
    /\ depth_calls' = 0
    /\ recent' = <<>>
    /\ faults' = 0
    /\ fed_ungenerated' = FALSE
    /\ shape' = NoShape
    /\ UNCHANGED <<cfgvars, streaming, cache, closed, main_at>>

Next ==
    /\ \/ InitStreamingState
       \/ CloseSession
       \/ StepWithoutState
       \/ \E sh \in InputShapes : StepShapeError(sh[1], sh[2], sh[3])
       \/ \E sh \in InputShapes :
             /\ ShapeError(sh[1], sh[2], sh[3]) = "ok"
             /\ \E toks \in [1..sh[2] -> ExtTokens], text_token \in TextTokens :
                   Step(toks, text_token)
    /\ UNCHANGED <<pairvars, depvars, twinvars, nsvars>>

Spec == Init /\ [][Next]_vars

\* torch.full((batch_size, num_codebooks, max_delay + 2), ungenerated_token_id)
AllocatedCache == [k \in Codebooks |-> [p \in 0..(CacheSize - 1) |-> ungenerated_token_id]]

\* The cache writes of one step() call applied to the cache c of a session at
\* the same offset: external writes and seeding, and the generated writes when
\* the call gets past the validation (ret' is not a validation failure).
StepWrites(c, toks, text_token) ==
    LET c2 == SeedInitial(WriteInput(c, offset, toks), offset)
    IN  IF ret'.kind = "AssertionError" THEN c2
        ELSE WriteGenerated(c2, offset', text_token, DepformerStep(text_token))

\* Sessions in which the caller also resets the streaming state, fed valid
\* external tokens and at most MaxFaults tokens above card.  fresh follows a
\* session opened afresh where this one was reset.
NextReset ==
    /\ \/ InitStreamingState /\ fresh' = AllocatedCache
       \/ CloseSession /\ fresh' = <<>>
       \/ Reset /\ fresh' = AllocatedCache
       \/ \E toks \in [1..needed_tokens -> ValidExt \cup {card + 1}],
             text_token \in TextTokens :
                /\ Step(toks, text_token)
                /\ fresh' = StepWrites(fresh, toks, text_token)
    /\ UNCHANGED <<pairvars, depvars, nsvars>>
SpecReset == Init /\ [][NextReset]_vars

\* ---------------------------------------------------------- construction
\* LMModel(n_q=, dep_q=, delays=, ...) followed by LMGen(lm_model, temp=, ...)
\* and `with lm_gen.streaming(1)`.  Until LMModel.__init__ has run, n_q, dep_q
\* and delays hold the arguments the caller is about to pass.
sessvars == <<streaming, cache, offset, ret, input_, input_tokens, calls, main_calls,
              recent, stamp, faults, fed_ungenerated, shape, depth_calls, closed, main_at>>

\* Delay patterns of one to four entries for models of two or three codebooks.
ConstructorArgs ==
    {[n_q |-> s[1], dep_q |-> s[2], delays |-> d] :
        s \in Shapes, d \in UNION {[0..n -> 0..MaxDelay] : n \in 0..3}}

Temps == {-default_temp, 0, default_temp}
TextTemps == {0, default_temp_text}
TopKs == {0, default_top_k}
TextTopKs == {0, default_top_k_text}

InitConstruct ==
    /\ \E c \in ConstructorArgs :
          /\ n_q = c.n_q
          /\ dep_q = c.dep_q
          /\ delays = c.delays
    /\ max_delay = 0
    /\ check \in BOOLEAN
    /\ use_sampling = TRUE
    /\ temp = default_temp
    /\ temp_text = default_temp_text
    /\ top_k = default_top_k
    /\ top_k_text = default_top_k_text
    /\ built = "nothing"
    /\ Idle
    /\ ret = [kind |-> "fresh", out |-> NoOutput, why |-> "ok"]
    /\ closed = FALSE
    /\ NoPair

\* LMModel.__init__: the only check is the length of the delay pattern.
LMModelInit ==
    /\ built = "nothing"
    /\ built' = IF ValidConfig([n_q |-> n_q, delays |-> delays])
                THEN "LMModel" ELSE "AssertionError"
    /\ UNCHANGED <<n_q, dep_q, delays, check, max_delay, use_sampling,
                   temp, temp_text, top_k, top_k_text>>
    /\ UNCHANGED <<sessvars, pairvars, depvars, twinvars, nsvars>>

\* LMGen.__init__: stores its arguments and max(lm_model.delays).
LMGenInit(t, tt, k, kt) ==
    /\ built = "LMModel"
    /\ temp' = t
    /\ temp_text' = tt
    /\ top_k' = k
    /\ top_k_text' = kt
    /\ max_delay' = MaxOf({delays[i] : i \in DOMAIN delays})
    /\ built' = "LMGen"
    /\ UNCHANGED <<n_q, dep_q, delays, check, use_sampling>>
    /\ UNCHANGED <<sessvars, pairvars, depvars, twinvars, nsvars>>

\* with lm_gen.streaming(1) on the generator just built.
OpenConstructed ==
    /\ built = "LMGen"
    /\ InitStreamingState
    /\ UNCHANGED <<pairvars, depvars, twinvars, nsvars>>

NextConstruct ==
    \/ LMModelInit
    \/ \E t \in Temps, tt \in TextTemps, k \in TopKs, kt \in TextTopKs : LMGenInit(t, tt, k, kt)
    \/ OpenConstructed

SpecConstruct == InitConstruct /\ [][NextConstruct]_vars

\* ------------------------------------------------------------ LMNoStream
\* LMNoStream(lm_model, check).forward(input_tokens, text_tokens, output_tokens)
\* for one timestep; check is the flag of the LMNoStream object here.
\* Tensors are taken along dim 1 as sequences, index 1 first.  forward keeps
\* no state from one call to the next, so one call per object is followed.

\* torch.cat([a, b, c], dim=1)
Cat(a, b, c) == a \o b \o c

\* The rows of a [B, K, 1] tensor as the slice a check block indexes from 0.
AsSlice(t) == [k \in 0..(Len(t) - 1) |-> t[k + 1]]

\* The two assertions of LMNoStream's check block, in order.
CheckInputNoStream(inp) ==
    IF \E k \in DOMAIN inp : k >= audio_offset /\ inp[k] > card THEN "audio_range"
    ELSE IF inp[0] > text_card THEN "text_range"
    ELSE "ok"

\* self.depformer_step(text_tokens, transformer_out): LMNoStream defines no
\* depformer_step (its definition is commented out), so the attribute lookup raises.
NoStreamDepformerStep(text_token) ==
    [kind |-> "AttributeError", out |-> <<>>, why |-> "depformer_step"]

\* Audio tokens a caller passes as already generated: a codebook entry or the
\* initial token.
OutputTokens == {0, initial_token_id}

Forward(output_tokens, text_tokens, in_tokens) ==
    /\ ~no_stream.called
    /\ LET inp == Cat(output_tokens, text_tokens, in_tokens)
           why == IF check THEN CheckInputNoStream(AsSlice(inp)) ELSE "ok"
           outcome ==
               IF Len(in_tokens) # needed_tokens
               THEN [kind |-> "AssertionError", out |-> <<>>, why |-> "codebooks"]
               ELSE IF why # "ok"
               THEN [kind |-> "AssertionError", out |-> <<>>, why |-> why]
               ELSE IF Len(inp) # num_codebooks
               THEN [kind |-> "AssertionError", out |-> <<>>, why |-> "sequence"]
               ELSE NoStreamDepformerStep(text_tokens[1])
       IN  no_stream' =
               [called |-> TRUE, output_tokens |-> output_tokens, text_tokens |-> text_tokens,
                input_tokens |-> in_tokens,
                input_ |-> IF Len(in_tokens) # needed_tokens THEN <<>> ELSE inp,
                ret |-> outcome]
    /\ UNCHANGED <<cfgvars, sessvars, pairvars, depvars, twinvars>>

NextNoStream ==
    \E output_tokens \in [1..dep_q -> OutputTokens],
       text_tokens \in [1..1 -> TextTokens],
       Ki \in {needed_tokens, needed_tokens + 1} :
          \E in_tokens \in [1..Ki -> ValidExt \cup {card + 1}] :
              Forward(output_tokens, text_tokens, in_tokens)

SpecNoStream == Init /\ [][NextNoStream]_vars

\* ------------------------------------------------- a pair of generators
\* Two LMGen objects over the same LMModel (same delays, same weights, same
\* use_sampling) that may differ in their check flag; each opens its own
\* session and the caller feeds both the same tokens, the first generator one
\* call ahead of the second.  The session variables describe the generator
\* whose turn it is and parked holds the other one.
Park ==
    [check |-> check, streaming |-> streaming, cache |-> cache, offset |-> offset,
     ret |-> ret, input_ |-> input_, input_tokens |-> input_tokens, calls |-> calls,
     main_calls |-> main_calls, recent |-> recent, stamp |-> stamp, faults |-> faults,
     fed_ungenerated |-> fed_ungenerated, shape |-> shape, depth_calls |-> depth_calls,
     closed |-> closed, main_at |-> main_at]

First == IF turn = "first" THEN Park ELSE parked
Second == IF turn = "first" THEN parked ELSE Park
InStep == First.streaming = Second.streaming /\ First.calls = Second.calls

\* The caller goes on while both sessions are usable and sampled alike.
PairLive ==
    /\ tokens_same
    /\ First.ret.kind # "AssertionError"
    /\ Second.ret.kind # "AssertionError"

\* LMGen(lm_model, check=...) twice, over a model that takes external tokens;
\* the second generator has the first one's check flag or none.
InitPair ==
    /\ InitLMGen
    /\ needed_tokens > 0
    /\ use_sampling \in BOOLEAN
    /\ \E chk \in {check, FALSE} : parked = [Park EXCEPT !.check = chk]
    /\ turn = "first"
    /\ tokens_same = TRUE
    /\ depformer_state = NotStreaming
    /\ frame = NoFrame
    /\ fresh = <<>>
    /\ no_stream = NoForward

\* The caller turns to the other generator.
Swap ==
    /\ IF turn = "first" THEN ~InStep ELSE InStep /\ PairLive
    /\ parked' = Park
    /\ turn' = IF turn = "first" THEN "second" ELSE "first"
    /\ check' = parked.check
    /\ streaming' = parked.streaming
    /\ cache' = parked.cache
    /\ offset' = parked.offset
    /\ ret' = parked.ret
    /\ input_' = parked.input_
    /\ input_tokens' = parked.input_tokens
    /\ calls' = parked.calls
    /\ main_calls' = parked.main_calls
    /\ recent' = parked.recent
    /\ stamp' = parked.stamp
    /\ faults' = parked.faults
    /\ fed_ungenerated' = parked.fed_ungenerated
    /\ shape' = parked.shape
    /\ depth_calls' = parked.depth_calls
    /\ closed' = parked.closed
    /\ main_at' = parked.main_at
    /\ UNCHANGED <<n_q, dep_q, delays, max_delay, use_sampling, temp, temp_text, top_k,
                   top_k_text, built, tokens_same>>

\* with lm_gen.streaming(1) on either generator.
OpenPair ==
    /\ IF turn = "first" THEN InStep ELSE ~InStep
    /\ InitStreamingState
    /\ UNCHANGED pairvars

\* The first generator's step(): the sequence model's logits have any argmax,
\* and the caller feeds at most one frame with an invalid token.
StepFirst ==
    /\ turn = "first"
    /\ InStep
    /\ PairLive
    /\ \E toks \in [1..needed_tokens -> ValidExt \cup {card + 1}], argmax \in TextTokens :
          /\ faults = 0 \/ NumFaulty(toks) = 0
          /\ \E text_token \in TextTokenChoices(argmax) : Step(toks, text_token)
    /\ UNCHANGED pairvars

\* The second generator's step() on the same tokens: the same weights give the
\* same logits when the model sees the same slice after the same history (the
\* pair goes on only while the histories agree).
StepSecond ==
    /\ turn = "second"
    /\ streaming
    /\ ~InStep
    /\ LET toks == parked.input_tokens
           inp == ReadInput(SeedInitial(WriteInput(cache, offset, toks), offset), offset)
           same == inp = parked.input_
           invoked == parked.ret.kind # "AssertionError"
           logits == IF same /\ invoked THEN {parked.recent[1].tokens[0]} ELSE TextTokens
       IN  \E argmax \in logits : \E text_token \in TextTokenChoices(argmax) :
              /\ Step(toks, text_token)
              /\ tokens_same' = (tokens_same /\ (invoked => text_token = parked.recent[1].tokens[0]))
    /\ UNCHANGED <<parked, turn>>

NextPair ==
    /\ \/ OpenPair
       \/ Swap
       \/ StepFirst
       \/ StepSecond
    /\ UNCHANGED <<depvars, twinvars, nsvars>>

SpecPair == InitPair /\ [][NextPair]_vars

\* ================================================================ claims
Returned == ret.kind \in {"None", "out"}
CheckFailures == {"ungenerated", "audio_range", "text_range"}
ShapeFailures == {"dim", "steps", "codebooks"}
Raised == ret.kind = "AssertionError" /\ ret.why \in CheckFailures
External == (dep_q + 1)..(num_codebooks - 1)
\* The tokens generated by the step that ended at offset g, if still recorded.
GeneratedAt(g) == {r \in {recent[i] : i \in DOMAIN recent} : r.at = g}

\* C1: in a session, the n-th step() call that returns, returns None exactly
\* when n <= max(delays) and an output exactly when n > max(delays).
C1_WarmUpLength ==
    (streaming /\ Returned) =>
        /\ calls = offset
        /\ (ret.kind = "None") <=> (calls <= max_delay)
        /\ (ret.kind = "out") <=> (calls > max_delay)

C1_Witness ==
    /\ streaming /\ max_delay = 2 /\ calls = 3 /\ ret.kind = "out"

\* C2: an output returned at offset o holds, for each generated codebook k, the
\* cache value at slot (o - max_delay + delays[k]) mod (max_delay + 2), and that
\* value is the token generated for k by the step that ended at offset
\* o - max_delay + delays[k] (a lag of max_delay - delays[k] steps).
C2_GatherLag ==
    ret.kind = "out" =>
        \A k \in 0..dep_q :
            LET g == offset - max_delay + delays[k]
            IN  /\ ret.out[k] = cache[k][g % (max_delay + 2)]
                /\ GeneratedAt(g) # {}
                /\ \A r \in GeneratedAt(g) : ret.out[k] = r.tokens[k]

C2_Witness ==
    /\ ret.kind = "out" /\ max_delay = 2 /\ offset > max_delay + 2
    /\ \E k \in 0..dep_q : delays[k] = 0
    /\ \E k \in 0..dep_q : delays[k] = 1
    /\ \E i, j \in DOMAIN recent : recent[i].tokens # recent[j].tokens

\* C3: with capacity max(delays) + 2, a slot holding a generated token that the
\* gather has still to return (or returned in the step just made) has not been
\* written again by any write of step(): it still bears the generated-token
\* write of its offset and that step's token.
C3_NoOverwriteBeforeGather ==
    streaming =>
        \A k \in 0..dep_q : \A g \in 1..offset :
            (g > delays[k] /\ g + max_delay - delays[k] >= offset) =>
                /\ stamp[k][g % CT] = Stamp("generated", g)
                /\ \A r \in GeneratedAt(g) : cache[k][g % CT] = r.tokens[k]

C3_Witness ==
    /\ streaming /\ max_delay = 2 /\ offset > CT /\ ret.kind = "out"
    /\ needed_tokens > 0
    /\ \E k \in 0..dep_q : delays[k] = 0

\* C4: every slot the gather reads was last written by a generated-token write
\* or an initial-token seeding made at an offset <= the current one, and no
\* gathered value is the ungenerated sentinel.
C4_GatherReadsWrittenSlots ==
    ret.kind = "out" =>
        \A k \in DOMAIN ret.out :
            /\ ret.out[k] # ungenerated_token_id
            /\ stamp[k][GatherIndex(k, offset)][1] \in {"generated", "initial"}
            /\ stamp[k][GatherIndex(k, offset)][2] <= offset

C4_Witness ==
    /\ ret.kind = "out" /\ offset = max_delay + 1 /\ max_delay = 2
    /\ \E k \in DOMAIN ret.out : delays[k] = 0

\* C5: as long as the caller has never passed the ungenerated sentinel, the
\* slice step() reads for the sequence model holds no ungenerated sentinel, at
\* warm-up steps and after, and the sentinel assertion of check mode never fires.
C5_InputNeverUngenerated ==
    (streaming /\ calls > 0 /\ ~fed_ungenerated) =>
        /\ \A k \in DOMAIN input_ : input_[k] # ungenerated_token_id
        /\ DOMAIN input_ = Codebooks
        /\ ret.why # "ungenerated"

C5_Witness ==
    /\ streaming /\ check /\ ~fed_ungenerated /\ needed_tokens > 0
    /\ max_delay = 2 /\ offset = 2 /\ calls = 2
    /\ \E k \in External : delays[k] = 1

\* C6: with an all-zero delay pattern every step() call that returns, from the
\* first, returns an output, and the output is the token vector generated in
\* that same call.
C6_ZeroDelayNoLag ==
    (streaming /\ Returned /\ \A k \in DOMAIN delays : delays[k] = 0) =>
        /\ ret.kind = "out"
        /\ recent # <<>>
        /\ recent[1].at = offset
        /\ \A k \in 0..dep_q : ret.out[k] = recent[1].tokens[k]

C6_Witness ==
    /\ streaming /\ ret.kind = "out" /\ calls = 1
    /\ \A k \in DOMAIN delays : delays[k] = 0
    /\ n_q = 8

\* C7 as stated: in scenario B every call n >= 2 returns, for every codebook,
\* the token generated during call n - 1.
IsScenarioB == n_q = 8 /\ dep_q = 8 /\ delays = ScenarioB

C7_AllLaggedByOne ==
    (streaming /\ IsScenarioB /\ Returned) =>
        /\ calls = 1 => ret.kind = "None"
        /\ calls >= 2 =>
              /\ ret.kind = "out"
              /\ \A k \in 0..8 : \A r \in GeneratedAt(offset - 1) :
                    ret.out[k] = r.tokens[k]

\* C7: in scenario B the first call returns None and every later call n returns
\* the text token generated during call n - 1 together with the eight audio
\* tokens generated during call n itself.
C7_TextLaggedAudioCurrent ==
    (streaming /\ IsScenarioB /\ Returned) =>
        /\ calls = 1 => ret.kind = "None"
        /\ calls >= 2 =>
              /\ ret.kind = "out"
              /\ GeneratedAt(offset - 1) # {} /\ GeneratedAt(offset) # {}
              /\ \A r \in GeneratedAt(offset - 1) : ret.out[0] = r.tokens[0]
              /\ \A k \in 1..8 : \A r \in GeneratedAt(offset) :
                    ret.out[k] = r.tokens[k]

C7_Witness ==
    /\ streaming /\ IsScenarioB /\ calls = 3 /\ ret.kind = "out"
    /\ recent[1].tokens[1] # recent[2].tokens[1]
    /\ recent[1].tokens[0] # recent[2].tokens[0]

C9_FedCallRaises ==
    (streaming /\ check /\ calls > 0
        /\ \E q \in DOMAIN input_tokens : input_tokens[q] > card) => Raised

\* C9: with check enabled, an external token above card is rejected by the
\* step that reads its slot: a token fed for codebook k at offset t >= 1 makes
\* the step at offset t + delays[k] raise (the call it was fed to only when
\* delays[k] = 0), before that step invokes the sequence model; a token fed at
\* offset 0 is overwritten by the initial token and raises nothing.
C9_ReadingStepRaises ==
    (streaming /\ check) =>
        /\ (calls > 0 /\ \E k \in External : input_[k] > card) =>
              /\ Raised
              /\ \/ ret.why = "audio_range"
                 \/ \E k \in DOMAIN input_ : input_[k] = ungenerated_token_id
              /\ main_calls = offset /\ calls = main_calls + 1
              /\ \A k \in External : input_[k] > card =>
                    /\ stamp[k][offset % CT] = Stamp("input", offset - delays[k])
                    /\ offset - delays[k] >= 1
        /\ \A k \in External : \A p \in DOMAIN cache[k] :
              (cache[k][p] > card /\ stamp[k][p][1] = "input") =>
                  /\ offset <= stamp[k][p][2] + delays[k]
                  /\ p = (stamp[k][p][2] + delays[k]) % CT
        /\ (Returned /\ \E q \in DOMAIN input_tokens : input_tokens[q] > card) =>
              \A q \in DOMAIN input_tokens : input_tokens[q] > card =>
                  (offset = 1 \/ delays[dep_q + q] > 0)

C9_Witness ==
    /\ streaming /\ check /\ Raised /\ ret.why = "audio_range"
    /\ calls >= 3
    /\ \A q \in DOMAIN input_tokens : input_tokens[q] <= card
    /\ \E k \in External : input_[k] > card /\ delays[k] = 2

\* C10 as stated: with check enabled, every slice passed to the sequence model
\* lies within the vocabulary ranges, text in [0, text_card], audio in [0, card].
C10_ModelInputInRange ==
    (streaming /\ check /\ Returned) =>
        \A k \in DOMAIN input_ :
            /\ input_[k] >= 0
            /\ input_[k] <= (IF k = 0 THEN text_card ELSE card)

\* C10: with check enabled, a slice holding the ungenerated sentinel or a value
\* above its upper bound (text_card for text, card for audio) makes step() raise
\* before the sequence model is invoked, and the value stays in the cache as it
\* was; values below 0 other than the sentinel (the zero token -1) are accepted.
C10_SentinelAndUpperBoundRejected ==
    (streaming /\ check /\ calls > 0) =>
        LET bad == \E k \in DOMAIN input_ :
                      \/ input_[k] = ungenerated_token_id
                      \/ input_[k] > (IF k = 0 THEN text_card ELSE card)
        IN  /\ bad <=> Raised
            /\ Raised =>
                  /\ main_calls = offset /\ calls = main_calls + 1
                  /\ \A k \in DOMAIN input_ : cache[k][offset % CT] = input_[k]
            /\ Returned => main_calls = calls

C10_Witness ==
    /\ streaming /\ check /\ Raised /\ ret.why = "ungenerated"
    /\ \E k \in External : input_[k] = ungenerated_token_id /\ delays[k] = 1
    /\ offset >= 2

\* C11: a step() call whose tensor is not rank 3, carries more than one timestep
\* or has a number of external codebooks different from K - dep_q - 1 raises an
\* AssertionError of the shape assertions (of the codebook count when rank and
\* timestep are right), and leaves cache and offset as they were, with neither
\* the sequence model nor the depth decoder invoked.
C11_BadShapeFailsBeforeAnyEffect ==
    [][(streaming /\ streaming' /\ shape' # shape /\ shape' # <<3, needed_tokens, 1>>) =>
          /\ ret'.kind = "AssertionError"
          /\ ret'.why \in ShapeFailures
          /\ (shape'[1] = 3 /\ shape'[3] = 1) => ret'.why = "codebooks"
          /\ cache' = cache
          /\ offset' = offset
          /\ main_calls' = main_calls
          /\ depth_calls' = depth_calls]_vars

C11_Witness ==
    /\ streaming /\ ret.kind = "AssertionError" /\ ret.why = "codebooks"
    /\ needed_tokens > 0 /\ shape = <<3, needed_tokens + 1, 1>>
    /\ offset >= 2 /\ main_calls = offset

\* C12: step() proceeds only while a session is open: a call that returned or
\* failed an assertion was made in an open session, and a call made with no
\* session (never opened, or closed) raises RuntimeError and leaves the
\* generator as it was: no cache, offset 0, no model invocation.
C12_StepOnlyWhileActive ==
    /\ (Returned \/ ret.kind = "AssertionError") => streaming
    /\ ret.kind = "RuntimeError" => (~streaming /\ Idle)
    /\ ~streaming => (Idle /\ ret.kind \in {"fresh", "RuntimeError"})

C12_Witness ==
    /\ ret.kind = "RuntimeError" /\ closed /\ ~streaming

\* A step() call that completed; a reset() call.
Completed == calls' = calls + 1 /\ ret'.kind \in {"None", "out"}
Invoked == main_calls' = main_calls + 1
WasReset ==
    /\ calls' = 0
    /\ stamp' = [k \in Codebooks |-> [p \in DOMAIN cache[k] |-> Stamp("stale", 0)]]

\* C13 as stated: the offset of a session starts at 0, every completed step()
\* adds exactly 1 to it, and no other operation of the session changes it.
C13_OffsetOnlyAdvances ==
    [][/\ (~streaming /\ streaming') => offset' = 0
       /\ (streaming /\ streaming') =>
             /\ Completed => offset' = offset + 1
             /\ ~Completed => offset' = offset]_vars

\* C13: the offset of a session starts at 0, every completed step() adds
\* exactly 1 to it, reset() sets it back to 0, and no other operation of the
\* session (a step that raises included) changes it.
C13_OffsetAdvancesOrResets ==
    [][/\ (~streaming /\ streaming') => offset' = 0
       /\ (streaming /\ streaming') =>
             /\ Completed => offset' = offset + 1
             /\ WasReset => offset' = 0
             /\ (~Completed /\ ~WasReset) => offset' = offset]_vars

C13_Witness ==
    /\ streaming /\ offset = 2 /\ calls = 2
    /\ \E k \in Codebooks : \E p \in DOMAIN cache[k] :
          stamp[k][p] = Stamp("stale", 0) /\ cache[k][p] # ungenerated_token_id

\* C14 as stated: the sequence model is invoked exactly once per completed
\* step(), warm-up steps included, and never at an offset that is not above the
\* offset of every earlier invocation of the session.
C14_OncePerStepInOffsetOrder ==
    [][(streaming /\ streaming') =>
          /\ Completed <=> Invoked
          /\ Invoked => (main_at' = offset /\ main_at' > main_at)]_vars

\* C14: the sequence model is invoked exactly once per completed step(),
\* warm-up steps included, and not by a step that raises; each invocation is
\* made at the step's offset, which is the offset after the previous
\* invocation's, or offset 0 at the start of the session and after a reset().
C14_OncePerStepInOrderBetweenResets ==
    [][(streaming /\ streaming') =>
          /\ Completed <=> Invoked
          /\ Invoked => /\ main_at' = offset
                        /\ depth_calls' = depth_calls + 1
                        /\ offset = main_at + 1 \/ (offset = 0 /\ main_calls = 0)
          /\ main_calls' = offset']_vars

C14_Witness ==
    /\ streaming /\ ret.kind = "None" /\ main_calls = 2 /\ main_at = 1 /\ max_delay = 2
    /\ \E k \in Codebooks : \E p \in DOMAIN cache[k] : stamp[k][p] = Stamp("stale", 0)

\* C18: a completed step() advances the offset by one and leaves the tokens it
\* generated at slot (new offset) mod CT of rows 0..dep_q (text in row 0, audio
\* in rows 1..dep_q), whatever the delays; in those rows no other slot changes
\* except the slot of the old offset where the step seeded an initial token,
\* and the rows dep_q+1..K-1 change only where the step wrote its external
\* token, at (old offset + delay) mod CT, or seeded an initial token.  A step
\* that raises leaves rows 0..dep_q as seeding left them.
C18_GeneratedWriteFrame ==
    [][(streaming /\ streaming' /\ calls' = calls + 1) =>
          LET Seeded(k, p) == p = offset % CT /\ offset <= delays[k]
          IN  /\ Completed =>
                    /\ offset' = offset + 1
                    /\ \A k \in 0..dep_q :
                          /\ cache'[k][offset' % CT] = recent'[1].tokens[k]
                          /\ \A p \in DOMAIN cache[k] :
                                (p # offset' % CT /\ ~Seeded(k, p)) =>
                                    cache'[k][p] = cache[k][p]
              /\ ~Completed =>
                    \A k \in 0..dep_q : \A p \in DOMAIN cache[k] :
                        ~Seeded(k, p) => cache'[k][p] = cache[k][p]
              /\ \A k \in External : \A p \in DOMAIN cache[k] :
                    /\ (p # (offset + delays[k]) % CT /\ ~Seeded(k, p)) =>
                          cache'[k][p] = cache[k][p]
                    /\ (p = (offset + delays[k]) % CT /\ ~Seeded(k, p)) =>
                          cache'[k][p] = input_tokens'[k - dep_q]
                    /\ Seeded(k, p) => cache'[k][p] = initial_token_id]_vars

C18_Witness ==
    /\ streaming /\ ret.kind = "out" /\ needed_tokens > 0 /\ offset > CT
    /\ \E k \in 1..dep_q : delays[k] > 0
    /\ \E k \in External : delays[k] > 0
    /\ \E k \in External : \E p \in DOMAIN cache[k] : cache[k][p] # 0

\* ------------------------------------------------------- depformer_step
\* step() with the call of depformer_step (state.graphed_depth) taken one
\* inner iteration at a time.  transformer_out, the hidden representation the
\* sequence model computes for a timestep, is identified by the offset of
\* that timestep.
Forwarded(cb_index, sequence, transformer_out, seen) ==
    [cb_index |-> cb_index, sequence |-> sequence, transformer_out |-> transformer_out,
     seen |-> seen]

\* Mutant: prev_token is not updated inside the loop.
PrevTokenKept(prev_token, next_token) == prev_token

\* prev_token = next_token
PrevToken(prev_token, next_token) == next_token

\* with lm_gen.streaming(1): the generator and the modules that propagate
\* streaming enter streaming mode.
OpenDepformer ==
    /\ InitStreamingState
    /\ depformer_state' = IF streaming_propagate THEN EnterStreaming ELSE depformer_state
    /\ UNCHANGED <<frame, pairvars>>

\* step() reaches state.graphed_depth(text_token, transformer_out):
\* assert not lm_model.depformer.is_streaming; with lm_model.depformer.streaming(B).
DepformerStepEnter(text_token) ==
    /\ streaming
    /\ ret.kind # "AssertionError"
    /\ frame.pc # "loop"
    /\ offset < MaxSteps
    /\ IF depformer_state.is_streaming
       THEN /\ frame' = [NoFrame EXCEPT !.pc = "raised", !.why = "is_streaming"]
            /\ ret' = [kind |-> "AssertionError", out |-> NoOutput, why |-> "is_streaming"]
            /\ UNCHANGED depformer_state
       ELSE /\ frame' = [NoFrame EXCEPT !.pc = "loop", !.prev_token = text_token,
                                        !.text_token = text_token,
                                        !.transformer_out = offset]
            /\ depformer_state' = EnterStreaming
            /\ UNCHANGED ret
    /\ UNCHANGED <<cfgvars, pairvars, streaming, cache, offset, input_, input_tokens, calls,
                   main_calls, recent, stamp, faults, fed_ungenerated, shape, depth_calls,
                   closed, main_at>>

\* One iteration of `for cb_index in range(lm_model.dep_q)`: forward_depformer
\* on prev_token and transformer_out, then sample_token.
DepformerIteration ==
    /\ frame.pc = "loop"
    /\ frame.cb_index < dep_q
    /\ LET next_token == DepformerToken(frame.cb_index, frame.prev_token)
       IN  /\ frame' = [frame EXCEPT
                          !.cb_index = @ + 1,
                          !.prev_token = PrevToken(@, next_token),
                          !.depformer_tokens = Append(@, next_token),
                          !.forwarded = Append(@, Forwarded(frame.cb_index, frame.prev_token,
                                                            frame.transformer_out,
                                                            depformer_state.seen))]
           /\ depformer_state' = [depformer_state EXCEPT
                                    !.seen = Append(@, <<frame.transformer_out, frame.prev_token>>)]
    /\ UNCHANGED <<cfgvars, sessvars, pairvars>>

\* An iteration raises (an assertion of forward_depformer, a device error):
\* the exception leaves the with block and step().
DepformerIterationRaises ==
    /\ frame.pc = "loop"
    /\ frame.cb_index < dep_q
    /\ frame' = [frame EXCEPT !.pc = "raised", !.why = "iteration"]
    /\ depformer_state' = ExitStreaming
    /\ ret' = [kind |-> "AssertionError", out |-> NoOutput, why |-> "iteration"]
    /\ UNCHANGED <<cfgvars, pairvars, streaming, cache, offset, input_, input_tokens, calls,
                   main_calls, recent, stamp, faults, fed_ungenerated, shape, depth_calls,
                   closed, main_at>>

\* range(dep_q) is exhausted: the with block is left, depformer_step returns
\* and step() completes with the tokens of this timestep.
DepformerStepReturn(toks) ==
    /\ frame.pc = "loop"
    /\ frame.cb_index >= dep_q
    /\ frame' = [frame EXCEPT !.pc = "returned"]
    /\ depformer_state' = ExitStreaming
    /\ Step(toks, frame.text_token)
    /\ UNCHANGED pairvars

NextDepformer ==
    /\ \/ OpenDepformer
       \/ \E text_token \in TextTokens : DepformerStepEnter(text_token)
       \/ DepformerIteration
       \/ DepformerIterationRaises
       \/ \E toks \in [1..needed_tokens -> ValidExt] : DepformerStepReturn(toks)
    /\ UNCHANGED <<twinvars, nsvars>>

SpecDepformer == Init /\ [][NextDepformer]_vars

\* ---------------------------------------------------------------- C15
\* The two generators of a pair have made the same calls and both sessions are open.
BothStepped == First.streaming /\ Second.streaming /\ InStep /\ First.calls > 0
SameSession ==
    /\ Second.cache = First.cache
    /\ Second.offset = First.offset
    /\ Second.ret = First.ret

C16_CheckDoesNotChangeSuccessfulPaths ==
    (/\ BothStepped
     /\ First.check
     /\ ~Second.check
     /\ tokens_same
     /\ First.ret.kind # "AssertionError") => SameSession

C16_Witness ==
    /\ BothStepped
    /\ First.check
    /\ ~Second.check
    /\ tokens_same
    /\ use_sampling
    /\ turn = "second"
    /\ calls > max_delay + 2
    /\ max_delay > 0
    /\ ret.kind = "out"
    /\ faults > 0

\* ---------------------------------------------------------------- C17
\* C17: a delay pattern whose length differs from n_q + 1, a non-positive text
\* or audio temperature, and a zero top-k each make construction fail, so a
\* generator is never built, and a session never opened, with such a
\* configuration.
C17_InvalidConfigurationRejected ==
    (built = "LMGen" \/ streaming) =>
        /\ ValidConfig([n_q |-> n_q, delays |-> delays])
        /\ temp > 0
        /\ temp_text > 0
        /\ top_k # 0
        /\ top_k_text # 0

\* ---------------------------------------------------------------- C19
\* C19: within one depformer_step call the iterations run for cb = 0, 1, ... in
\* that order; iteration cb is given the hidden representation of the current
\* outer step and the previous token only (the sampled text token for cb = 0,
\* the token of iteration cb - 1 otherwise), and the depth model's state then
\* holds inputs of this chain only; a call that returns has produced exactly
\* dep_q tokens, which step() writes in codebook order to rows 1..dep_q.
C19_ChainOrderAndDependencies ==
    /\ Len(frame.depformer_tokens) = Len(frame.forwarded)
    /\ \A i \in DOMAIN frame.forwarded :
          LET call == frame.forwarded[i]
          IN  /\ call.cb_index = i - 1
              /\ call.transformer_out = frame.transformer_out
              /\ call.sequence = IF i = 1 THEN frame.text_token
                                 ELSE frame.depformer_tokens[i - 1]
              /\ frame.depformer_tokens[i] = DepformerToken(call.cb_index, call.sequence)
              /\ Len(call.seen) = i - 1
              /\ \A j \in DOMAIN call.seen :
                    call.seen[j] = <<frame.transformer_out, frame.forwarded[j].sequence>>
    /\ frame.pc = "loop" => frame.transformer_out = offset
    /\ frame.pc = "returned" =>
          /\ Len(frame.depformer_tokens) = dep_q
          /\ frame.transformer_out = main_at
          /\ offset = main_at + 1
          /\ \A k \in 1..dep_q : cache[k][Position(offset)] = frame.depformer_tokens[k]

C19_Witness ==
    /\ frame.pc = "returned"
    /\ dep_q > 2
    /\ offset > 1
    /\ frame.depformer_tokens[2] # frame.depformer_tokens[1]
    /\ frame.text_token # 0

\* ---------------------------------------------------------------- C20
\* C20: the depth model is in streaming mode exactly while a depformer_step
\* call is inside its loop: it is not streaming when the call begins (the
\* entry assertion never fails), the state it acquires holds only the inputs
\* of the iterations run so far in this call, and it is released when the call
\* returns or an iteration raises; between two outer steps the depth model is
\* not streaming and holds no state.
C20_DepformerStateScopedToStep ==
    /\ frame.why # "is_streaming"
    /\ frame.pc # "loop" => depformer_state = NotStreaming
    /\ frame.pc = "loop" =>
          /\ depformer_state.is_streaming
          /\ Len(depformer_state.seen) = frame.cb_index
          /\ \A j \in DOMAIN depformer_state.seen :
                depformer_state.seen[j][1] = offset

C20_Witness ==
    /\ frame.pc = "raised"
    /\ frame.why = "iteration"
    /\ frame.cb_index > 0
    /\ offset > 0
    /\ streaming
    /\ ~depformer_state.is_streaming

\* ---------------------------------------------------------------- C21
\* Offset of the step that read input_, the last call of the session that
\* passed the shape assertions: it completed or failed the validation.
ReadAt == IF Raised THEN offset ELSE offset - 1

\* External tokens passed to the step made at offset s, for s within the
\* latest max_delay steps before the reading step or the reading step itself.
SuppliedAt(s) ==
    IF s = ReadAt THEN {input_tokens}
    ELSE {recent[i].fed : i \in {j \in DOMAIN recent : recent[j].at = s + 1}}

\* C21: for every external codebook k (k > dep_q) with delay d, the value read
\* for k by the step at offset t is the initial audio token when t <= d and
\* otherwise the external token passed to the step at offset t - d; the cell
\* read was never written by the step at offset 0, whose external tokens are
\* overwritten by the seeding.
C21_ExternalValueRead ==
    (streaming /\ calls > 0 /\ (Returned \/ Raised)) =>
        \A k \in External :
            LET t == ReadAt
                d == delays[k]
            IN  /\ t <= d => input_[k] = initial_token_id
                /\ t > d =>
                      /\ SuppliedAt(t - d) # {}
                      /\ \A toks \in SuppliedAt(t - d) : input_[k] = toks[k - dep_q]
                /\ stamp[k][Position(t)] # Stamp("input", 0)

C21_Witness ==
    /\ streaming
    /\ ret.kind = "out"
    /\ \E k \in External :
          /\ delays[k] = MaxDelay
          /\ input_[k] = card + 1
          /\ input_tokens[k - dep_q] # card + 1
          /\ offset > delays[k] + 2

\* ---------------------------------------------------------------- C22
\* A step() call got past the shape assertions and read its slice.
ReadSlice == calls' = calls + 1

\* C22: for every generated codebook k (k <= dep_q) with delay d, the value
\* read for k by the step at offset t is the stream's initial token when
\* t <= d, the seeding having overwritten the token generated for k by the
\* step before, and otherwise the token generated for k by the step at offset
\* t - 1; every gathered value of row k was generated by a step at offset d
\* or later, so the tokens generated at offsets 0..d-1 are never returned.
C22_GeneratedValueRead ==
    [][ReadSlice =>
          \A k \in Generated :
              LET t == offset
                  d == delays[k]
              IN  /\ t <= d =>
                        /\ input_'[k] = GetInitialToken(k)
                        /\ cache'[k][Position(t)] = GetInitialToken(k)
                        /\ stamp'[k][Position(t)] = Stamp("initial", t)
                  /\ t > d =>
                        /\ recent # <<>>
                        /\ recent[1].at = t
                        /\ input_'[k] = recent[1].tokens[k]
                  /\ ret'.kind = "out" =>
                        LET g == offset' - max_delay + d
                        IN  /\ g - 1 >= d
                            /\ stamp'[k][GatherIndex(k, offset')] = Stamp("generated", g)
                            /\ \A i \in DOMAIN recent' :
                                  recent'[i].at = g => ret'.out[k] = recent'[i].tokens[k]
                            /\ \E i \in DOMAIN recent' : recent'[i].at = g]_vars

C22_Witness ==
    /\ streaming
    /\ ret.kind = "None"
    /\ Len(recent) > 1
    /\ \E k \in Generated :
          /\ k > 0
          /\ offset - 1 <= delays[k]
          /\ input_[k] = GetInitialToken(k)
          /\ recent[2].at = offset - 1
          /\ recent[2].tokens[k] # GetInitialToken(k)
          /\ cache[k][Position(offset - 1)] = GetInitialToken(k)

\* ---------------------------------------------------------------- C23
Stale(k, p) == stamp[k][p] = Stamp("stale", 0)

\* C23: after reset() at any offset the session behaves like one opened afresh
\* and fed the same external and generated tokens: every slice read, every
\* gathered output and the None/output pattern are those of the fresh session,
\* and no cell read by a slice or by the gather holds a value written before
\* the reset.
C23_ResetBehavesLikeFresh ==
    (streaming /\ (Returned \/ Raised)) =>
        /\ input_ = ReadInput(fresh, ReadAt)
        /\ Raised <=> (check /\ CheckInput(ReadInput(fresh, ReadAt)) # "ok")
        /\ \A k \in Codebooks : ~Stale(k, Position(ReadAt))
        /\ Returned => (ret.kind = "None" <=> offset <= max_delay)
        /\ ret.kind = "out" =>
              /\ ret.out = GatherOutput(fresh, offset)
              /\ \A k \in GatherRows : ~Stale(k, GatherIndex(k, offset))

C23_Witness ==
    /\ streaming
    /\ ret.kind = "out"
    /\ max_delay > 0
    /\ \E k \in External : \E p \in DOMAIN cache[k] :
          /\ Stale(k, p)
          /\ cache[k][p] = card + 1
          /\ fresh[k][p] = ungenerated_token_id

\* ---------------------------------------------------------------- C24
\* A step() call read its slice and failed the validation.
FailedCheck ==
    /\ calls' = calls + 1
    /\ ret'.kind = "AssertionError"
    /\ ret'.why \in CheckFailures

\* C24: a step() that fails the validation leaves the offset unchanged and
\* invokes neither the sequence model nor the depth decoder, and its earlier
\* writes stay: every row still in warm-up holds its initial token at the
\* current slot, every external row holds the token just passed at its delayed
\* slot (unless the seeding took that slot), and no other cell has changed.
C24_FailedCheckKeepsWrites ==
    [][FailedCheck =>
          /\ check
          /\ offset' = offset
          /\ main_calls' = main_calls
          /\ depth_calls' = depth_calls
          /\ \A k \in Codebooks : \A p \in DOMAIN cache[k] :
                cache'[k][p] =
                    IF p = Position(offset) /\ offset <= delays[k]
                    THEN GetInitialToken(k)
                    ELSE IF k \in External /\ p = (offset + delays[k]) % CT
                    THEN input_tokens'[k - dep_q]
                    ELSE cache[k][p]]_vars

C24_Witness ==
    /\ streaming
    /\ Raised
    /\ offset > 0
    /\ \E k \in External :
          /\ delays[k] > 0
          /\ stamp[k][WritePosition(k, offset)] = Stamp("input", offset)
          /\ cache[k][WritePosition(k, offset)] = input_tokens[k - dep_q]
    /\ \E k \in Codebooks :
          /\ stamp[k][Position(offset)] = Stamp("initial", offset)
          /\ cache[k][Position(offset)] = GetInitialToken(k)

\* ---------------------------------------------------------------- C25
\* The ordering of the slice step() feeds to the sequence model: the text
\* token, the generated audio codebooks, the external audio codebooks.
StreamingOrder(text_tokens, output_tokens, in_tokens) ==
    text_tokens \o output_tokens \o in_tokens

\* C25: LMNoStream.forward, given the right number of external codebooks,
\* assembles its model input in the ordering of the streaming engine (text at
\* index 0, generated audio at 1..dep_q, external audio after them) and, for
\* tokens within the vocabulary, runs the depth decoder and returns the dep_q
\* audio tokens the streaming engine would return.
C25_NoStreamMatchesStreaming ==
    (no_stream.called /\ Len(no_stream.input_tokens) = needed_tokens) =>
        /\ no_stream.input_ = StreamingOrder(no_stream.text_tokens, no_stream.output_tokens,
                                             no_stream.input_tokens)
        /\ CheckInputNoStream(AsSlice(StreamingOrder(no_stream.text_tokens,
                                                     no_stream.output_tokens,
                                                     no_stream.input_tokens))) = "ok" =>
              /\ no_stream.ret.kind = "out"
              /\ no_stream.ret.out = DepformerStep(no_stream.text_tokens[1])
====
